---- MODULE Spec2Model ----
(***************************************************************************)
(* Model of the Glicko-2 rating calculator (class Glicko2 / Glicko2_impl). *)
(*                                                                         *)
(* A C++ double is modelled as a decimal floating-point value with an      *)
(* eight digit mantissa, the three IEEE classes (finite, infinite, NaN)    *)
(* and the overflow / underflow limits of the binary64 format.  All the    *)
(* arithmetic of the program (+ - * / sqrt exp log, comparisons, the       *)
(* conversion to int) is computed on that representation.                  *)
(***************************************************************************)
EXTENDS Integers, Sequences, FiniteSets, TLC

----------------------------------------------------------------------------
(* double: representation                                                  *)

\* a finite value is s * m * 10^e with s in {-1,0,1}, MantLo <= m < MantHi
MantLo == 10^7
MantHi == 10^8

\* the values of type double.  The operations on them are functions of
\* their values.
Double == [k : {"fin", "inf", "nan"}, s : {-1, 0, 1}, m : Nat, e : Int]

Zero   == [k |-> "fin", s |-> 0, m |-> 0, e |-> 0]
NaN    == [k |-> "nan", s |-> 0, m |-> 0, e |-> 0]
Inf(s) == [k |-> "inf", s |-> s, m |-> 0, e |-> 0]

IsNaN(a)    == a.k = "nan"
IsFinite(a) == a.k = "fin"

AbsI(n) == IF n < 0 THEN -n ELSE n
SgnI(n) == IF n < 0 THEN -1 ELSE IF n > 0 THEN 1 ELSE 0

NumDigits(m) ==
  IF m < 10 THEN 1 ELSE IF m < 100 THEN 2 ELSE IF m < 1000 THEN 3
  ELSE IF m < 10000 THEN 4 ELSE IF m < 100000 THEN 5 ELSE IF m < 1000000 THEN 6
  ELSE IF m < 10000000 THEN 7 ELSE IF m < 100000000 THEN 8
  ELSE IF m < 1000000000 THEN 9 ELSE 10

\* largest finite double is 1.7976931e308, smallest positive one 4.94e-324
\* (half of it rounds to zero)
Range(s, m, e) ==
  IF e > 301 \/ (e = 301 /\ m > 17976931) THEN Inf(s)
  ELSE IF e < -331 \/ (e = -331 /\ m < 24703282) THEN Zero
  ELSE [k |-> "fin", s |-> s, m |-> m, e |-> e]

\* the double nearest to s * m * 10^e, for any 0 <= m < 2^31 - 50
Norm[s \in Int, m \in Nat, e \in Int] ==
  IF m = 0 \/ s = 0 THEN Zero
  ELSE LET sh == NumDigits(m) - 8
           m1 == IF sh > 0 THEN (m + 5 * 10^(sh - 1)) \div 10^sh
                 ELSE m * 10^(-sh)
           up == m1 = MantHi
       IN  Range(s, IF up THEN MantLo ELSE m1, e + sh + (IF up THEN 1 ELSE 0))

\* a decimal literal of the source: m * 10^e
Lit(m, e) == Norm[SgnI(m), AbsI(m), e]

----------------------------------------------------------------------------
(* double: arithmetic                                                      *)

Neg[a \in Double] == [a EXCEPT !.s = -a.s]

Fabs[a \in Double] == [a EXCEPT !.s = AbsI(a.s)]

AddAligned[hi \in Double, lo \in Double] ==
  LET diff == hi.e - lo.e IN
  IF diff > 9 THEN hi
  ELSE IF diff = 0
    THEN LET t == hi.s * hi.m + lo.s * lo.m IN Norm[SgnI(t), AbsI(t), hi.e]
    ELSE LET lm == IF diff = 1 THEN lo.m
                   ELSE (lo.m + 5 * 10^(diff - 2)) \div 10^(diff - 1)
             t  == hi.s * hi.m * 10 + lo.s * lm
         IN  Norm[SgnI(t), AbsI(t), hi.e - 1]

Add[a \in Double, b \in Double] ==
  IF a.k = "nan" \/ b.k = "nan" THEN NaN
  ELSE IF a.k = "inf" THEN (IF b.k = "inf" /\ b.s # a.s THEN NaN ELSE a)
  ELSE IF b.k = "inf" THEN b
  ELSE IF a.s = 0 THEN b
  ELSE IF b.s = 0 THEN a
  ELSE IF a.e >= b.e THEN AddAligned[a, b] ELSE AddAligned[b, a]

Sub[a \in Double, b \in Double] == Add[a, Neg[b]]

Mul[a \in Double, b \in Double] ==
  IF a.k = "nan" \/ b.k = "nan" THEN NaN
  ELSE IF a.k = "inf" \/ b.k = "inf"
    THEN (IF a.s = 0 \/ b.s = 0 THEN NaN ELSE Inf(a.s * b.s))
  ELSE IF a.s = 0 \/ b.s = 0 THEN Zero
  ELSE LET a1  == a.m \div 10000
           a0  == a.m % 10000
           b1  == b.m \div 10000
           b0  == b.m % 10000
           mid == a1 * b0 + a0 * b1
           lo  == a0 * b0
           q   == a1 * b1 * 10 + (mid + lo \div 10000 + 500) \div 1000
       IN  Norm[a.s * b.s, q, a.e + b.e + 7]

LongDiv[q \in Nat, r \in Nat, d \in Nat, n \in Nat] ==
  IF n = 0 THEN (IF 2 * r >= d THEN q + 1 ELSE q)
  ELSE LongDiv[q * 10 + (r * 10) \div d, (r * 10) % d, d, n - 1]

Div[a \in Double, b \in Double] ==
  IF a.k = "nan" \/ b.k = "nan" THEN NaN
  ELSE IF a.k = "inf"
    THEN (IF b.k = "inf" THEN NaN ELSE Inf(IF b.s < 0 THEN -a.s ELSE a.s))
  ELSE IF b.k = "inf" THEN Zero
  ELSE IF b.s = 0 THEN (IF a.s = 0 THEN NaN ELSE Inf(a.s))
  ELSE IF a.s = 0 THEN Zero
  ELSE Norm[a.s * b.s, LongDiv[a.m \div b.m, a.m % b.m, b.m, 8], a.e - b.e - 8]

\* the comparisons of doubles: any comparison with a NaN is false
Lt[a \in Double, b \in Double] == a.k # "nan" /\ b.k # "nan" /\ Sub[a, b].s < 0
Gt[a \in Double, b \in Double] == Lt[b, a]
Le[a \in Double, b \in Double] == a.k # "nan" /\ b.k # "nan" /\ Sub[a, b].s <= 0

\* int -> double
FromInt[n \in Int] == Norm[SgnI(n), AbsI(n), 0]

\* double -> int (truncation toward zero), for a finite value in int range
InIntRange[a \in Double] ==
  /\ a.k = "fin"
  /\ a.s = 0 \/ a.e < 2 \/ (a.e = 2 /\ a.m <= 21474836)
TruncInt[a \in Double] ==
  IF a.s = 0 \/ a.e < -7 THEN 0
  ELSE IF a.e >= 0 THEN a.s * a.m * 10^a.e
  ELSE a.s * (a.m \div 10^(-a.e))

----------------------------------------------------------------------------
(* double: <cmath> functions                                               *)

One  == FromInt[1]
Two  == FromInt[2]
Half == Lit(5, -1)

\* ln 10 = Ln10Hi + Ln10Lo and ln 2
Ln10Hi == Lit(23025, -4)
Ln10Lo == Lit(85092994, -12)
Ln2    == Lit(69314718, -8)

RoundInt[a \in Double] == TruncInt[Add[a, IF a.s < 0 THEN Neg[Half] ELSE Half]]

\* 1 + q/k * (1 + q/(k+1) * (1 + ...)), the Taylor series of e^q from term k
ExpSeries[q \in Double, k \in Nat] ==
  IF k > 10 THEN One
  ELSE Add[One, Mul[Div[q, FromInt[k]], ExpSeries[q, k + 1]]]

\* exp(x): x = n ln 10 + r, e^x = 10^n * (e^(r/4))^4
Square[a \in Double] == Mul[a, a]
Scale10[p \in Double, n \in Int] == Range(p.s, p.m, p.e + n)
ExpFinite[x \in Double, n \in Int] ==
  Scale10[Square[Square[ExpSeries[
            Div[Sub[Sub[x, Mul[FromInt[n], Ln10Hi]], Mul[FromInt[n], Ln10Lo]],
                FromInt[4]], 1]]],
          n]
Exp[x \in Double] ==
  IF x.k = "nan" THEN NaN
  ELSE IF x.k = "inf" THEN (IF x.s > 0 THEN Inf(1) ELSE Zero)
  ELSE IF x.s = 0 THEN One
  ELSE IF Gt[x, FromInt[710]] THEN Inf(1)
  ELSE IF Lt[x, FromInt[-746]] THEN Zero
  ELSE ExpFinite[x, RoundInt[Div[x, Add[Ln10Hi, Ln10Lo]]]]

\* 2 * (z + z^3/3 + z^5/5 + ...), the series of ln((1+z)/(1-z)), z2 = z*z
AtanhSeries[z2 \in Double, k \in Nat] ==
  IF k > 13 THEN Zero
  ELSE Add[Div[One, FromInt[k]], Mul[z2, AtanhSeries[z2, k + 2]]]

\* log(x): x = t * 10^E with 1 <= t < 10, t = 2^j * u with u near 1
LogNearOne[z \in Double] == Mul[Two, Mul[z, AtanhSeries[Mul[z, z], 1]]]
LogMantissa[u \in Double, j \in Nat] ==
  Add[Mul[FromInt[j], Ln2], LogNearOne[Div[Sub[u, One], Add[u, One]]]]
LogParts[Ef \in Double, m \in Nat, j \in Nat] ==
  Add[Add[Mul[Ef, Ln10Hi], Mul[Ef, Ln10Lo]],
      LogMantissa[Div[[k |-> "fin", s |-> 1, m |-> m, e |-> -7], FromInt[2^j]], j]]
Log[x \in Double] ==
  IF x.k = "nan" \/ x.s < 0 THEN NaN
  ELSE IF x.k = "inf" THEN Inf(1)
  ELSE IF x.s = 0 THEN Inf(-1)
  ELSE LogParts[FromInt[x.e + 7], x.m,
                IF x.m < 14142136 THEN 0 ELSE IF x.m < 28284271 THEN 1
                ELSE IF x.m < 56568542 THEN 2 ELSE 3]

\* sqrt(x) by Newton's iteration y <- (y + x/y)/2
SqrtIter[x \in Double, y \in Double, n \in Nat] ==
  IF n = 0 THEN y ELSE SqrtIter[x, Mul[Half, Add[y, Div[x, y]]], n - 1]

Sqrt[x \in Double] ==
  IF x.k = "nan" \/ x.s < 0 THEN NaN
  ELSE IF x.k = "inf" THEN Inf(1)
  ELSE IF x.s = 0 THEN Zero
  ELSE SqrtIter[x, [k |-> "fin", s |-> 1,
                    m |-> IF (x.e + 7) % 2 = 0 THEN 20000000 ELSE 55000000,
                    e |-> ((x.e + 7) \div 2) - 7], 6]

----------------------------------------------------------------------------
(* Glicko2_impl: constants and utility functions                           *)

\* const double Glicko2_impl::dvolatility = 0.3
dvolatility == Lit(3, -1)

\* #define PI_SQUARED (9.86960440108935861883)
PI_SQUARED == Lit(98696044, -7)

\* the literals 173.7178, 1500.0 and 0.0000001 of the source
GlickoScale  == Lit(1737178, -4)
GlickoCentre == FromInt[1500]
Epsilon      == Lit(1, -7)

\* 1.0 / (sqrt(1.0 + 3.0 * deviation * deviation / PI_SQUARED))
g(deviation) ==
  Div[One, Sqrt[Add[One, Div[Mul[Mul[FromInt[3], deviation], deviation],
                             PI_SQUARED]]]]

\* E with the sign of the exponent lost
EWrongSign(rating, rating_opponent, deviation_opponent) ==
  Div[One, Add[One, Exp[Mul[g(deviation_opponent),
                            Sub[rating, rating_opponent]]]]]

\* 1.0 / (1.0 + exp(-g(deviation_opponent)*(rating - rating_opponent)))
E(rating, rating_opponent, deviation_opponent) ==
  Div[One, Add[One, Exp[Mul[Neg[g(deviation_opponent)],
                            Sub[rating, rating_opponent]]]]]

----------------------------------------------------------------------------
(* Glicko2: the object and its accessors                                   *)

\* the value members of Glicko2_impl
Scalars(rating, deviation, volatility) ==
  [rating |-> rating, deviation |-> deviation, volatility |-> volatility]

\* Glicko2_impl(): everything zero, both vectors empty
Glicko2_impl ==
  [rating |-> Zero, deviation |-> Zero, volatility |-> Zero,
   opponents |-> << >>, results |-> << >>]

\* pimpl->rating = (rating - 1500.0) / 173.7178
SetRating(o, rating) ==
  [o EXCEPT !.rating = Div[Sub[rating, GlickoCentre], GlickoScale]]

\* pimpl->deviation = deviation / 173.7178
SetDeviation(o, deviation) ==
  [o EXCEPT !.deviation = Div[deviation, GlickoScale]]

\* pimpl->volatility = volatility
SetVolatility(o, volatility) == [o EXCEPT !.volatility = volatility]

\* Glicko2(double rating, double deviation, double volatility)
Glicko2(rating, deviation, volatility) ==
  SetVolatility(SetDeviation(SetRating(Glicko2_impl, rating), deviation),
                volatility)

\* Glicko2(): 1500 / 350 / 0.06
Glicko2Default == Glicko2(FromInt[1500], FromInt[350], Lit(6, -2))

GetRating(o)     == Add[Mul[o.rating, GlickoScale], GlickoCentre]
GetDeviation(o)  == Mul[o.deviation, GlickoScale]
GetVolatility(o) == o.volatility

\* operator<
LessThan(o, rhs) == Lt[o.rating, rhs.rating]

----------------------------------------------------------------------------
(* Glicko2::Update: the computation                                        *)

\* g_i * g_i * E_i * (1.0 - E_i)
VarianceTerm[g_i, E_i \in Double] == Mul[Mul[Mul[g_i, g_i], E_i], Sub[One, E_i]]

\* variance += g_i * g_i * E_i * (1.0 - E_i), for i = 0 .. size-1
RECURSIVE VarianceSum(_, _, _)
VarianceSum(o, i, acc) ==
  IF i > Len(o.opponents) THEN acc
  ELSE VarianceSum(o, i + 1,
         Add[acc, VarianceTerm[g(o.opponents[i].deviation),
                               E(o.rating, o.opponents[i].rating,
                                 o.opponents[i].deviation)]])

\* variance = 1.0 / variance
Variance(o) == Div[One, VarianceSum(o, 1, Zero)]

\* delta += g(dev_i) * (results[i] - E(rating, rating_i, dev_i)); read[i] is
\* the value the program reads as results[i]
RECURSIVE ScoreSum(_, _, _, _)
ScoreSum(o, read, i, acc) ==
  IF i > Len(o.opponents) THEN acc
  ELSE ScoreSum(o, read, i + 1,
         Add[acc, Mul[g(o.opponents[i].deviation),
                      Sub[read[i], E(o.rating, o.opponents[i].rating,
                                     o.opponents[i].deviation)]]])

\* delta *= variance
Delta(o, read, variance) == Mul[ScoreSum(o, read, 1, Zero), variance]

\* a = log(volatility * volatility)
LogVariance(o) == Log[Mul[o.volatility, o.volatility]]

\* double h1 = -(x - a)/(tau*tau) - 0.5*exp(x)/d + 0.5*exp(x)*(delta/d)*(delta/d)
H1[x, a, tau2, hex, d, dd \in Double] ==
  Add[Sub[Div[Neg[Sub[x, a]], tau2], Div[hex, d]], Mul[Mul[hex, dd], dd]]

\* double h2 = -1.0/(tau*tau) - 0.5*exp(x)*(dev*dev+variance)/(d*d)
\*           + 0.5*(delta*delta)*exp(x)*((dev*dev) + variance - exp(x))/(d*d*d)
H2[delta, tau2, ex, hex, pv, d \in Double] ==
  Add[Sub[Div[Neg[One], tau2], Div[Mul[hex, pv], Mul[d, d]]],
      Div[Mul[Mul[Mul[Half, Mul[delta, delta]], ex], Sub[pv, ex]],
          Mul[Mul[d, d], d]]]

\* x_new = x - h1/h2, with d = dev*dev + variance + exp(x)
NewtonD[delta, a, x, tau2, ex, hex, pv, d \in Double] ==
  Sub[x, Div[H1[x, a, tau2, hex, d, Div[delta, d]],
             H2[delta, tau2, ex, hex, pv, d]]]
NewtonEx[delta, a, x, ex, pv \in Double] ==
  NewtonD[delta, a, x, Mul[dvolatility, dvolatility], ex, Mul[Half, ex], pv,
          Add[pv, ex]]

\* the body of the while loop: the next x_new from x
NewtonStep(o, variance, delta, a, x) ==
  NewtonEx[delta, a, x, Exp[x], Add[Mul[o.deviation, o.deviation], variance]]

\* the statements after the loop.  score_sum is the sum of the second loop
\* over the results, g(dev_i) * (results[i] - E(rating, rating_i, dev_i)).
\* double pre_deviation = sqrt(deviation*deviation + new_volatility*new_volatility)
PreDeviation[deviation, new_volatility \in Double] ==
  Sqrt[Add[Mul[deviation, deviation], Mul[new_volatility, new_volatility]]]

\* 1.0 / sqrt(1.0/(pre_deviation*pre_deviation) + 1.0/variance)
NewDeviation[variance, pre_deviation \in Double] ==
  Div[One, Sqrt[Add[Div[One, Mul[pre_deviation, pre_deviation]],
                    Div[One, variance]]]]

\* new_rating *= new_deviation * new_deviation; new_rating += rating
NewRating[rating, score_sum, new_deviation \in Double] ==
  Add[Mul[Mul[score_sum, new_deviation], new_deviation], rating]

NewValuesFrom[rating, score_sum, new_deviation, new_volatility \in Double] ==
  Scalars(NewRating[rating, score_sum, new_deviation], new_deviation,
          new_volatility)
NewValuesVol[rating, deviation, score_sum, variance, new_volatility \in Double] ==
  NewValuesFrom[rating, score_sum,
                NewDeviation[variance, PreDeviation[deviation, new_volatility]],
                new_volatility]

\* double new_volatility = exp(x_new/2.0), and the three new values
NewValues(o, read, variance, x_new) ==
  NewValuesVol[o.rating, o.deviation, ScoreSum(o, read, 1, Zero), variance,
               Exp[Div[x_new, Two]]]

----------------------------------------------------------------------------
(* Glicko2: the operations on one object                                   *)

\* enum RESULT { WIN, LOSS, DRAW }; any other value of the enum's range is
\* written BadResult
WIN  == 0
LOSS == 1
DRAW == 2
BadResult == 3
RESULT == {WIN, LOSS, DRAW}

\* a copy constructor that allocates the Glicko2_impl and copies nothing
CopyOfDefault(rhs) == Scalars(Zero, Zero, Zero)

\* Glicko2(const Glicko2& rhs): a new Glicko2_impl copied from rhs's.  Only
\* the value members of the copy are kept: nothing reads the vectors of an
\* element of opponents.
CopyOf(rhs) == Scalars(rhs.rating, rhs.deviation, rhs.volatility)

\* the switch of AddResult with the scores of WIN and LOSS exchanged
ResultsPushedSwapped(result) ==
  IF result = WIN THEN <<Zero>>
  ELSE IF result = LOSS THEN <<One>>
  ELSE IF result = DRAW THEN <<Half>>
  ELSE << >>

\* the switch of AddResult: what is pushed on results
ResultsPushed(result) ==
  IF result = WIN THEN <<One>>
  ELSE IF result = LOSS THEN <<Zero>>
  ELSE IF result = DRAW THEN <<Half>>
  ELSE << >>

\* AddResult(opponent, result)
AddResult(o, opponent, result) ==
  [o EXCEPT !.opponents = Append(@, CopyOf(opponent)),
            !.results   = @ \o ResultsPushed(result)]

AddWin(o, opponent)  == AddResult(o, opponent, WIN)
AddLoss(o, opponent) == AddResult(o, opponent, LOSS)
AddDraw(o, opponent) == AddResult(o, opponent, DRAW)

\* ClearResults() that forgets results.clear()
ClearResultsOpponentsOnly(o) == [o EXCEPT !.opponents = << >>]

\* ClearResults()
ClearResults(o) == [o EXCEPT !.opponents = << >>, !.results = << >>]

\* operator=: *pimpl = *rhs.pimpl
Assign(o, rhs) ==
  [rating |-> rhs.rating, deviation |-> rhs.deviation,
   volatility |-> rhs.volatility,
   opponents |-> rhs.opponents, results |-> rhs.results]

\* Update() without its early return
IsEmptyLogDropped(o) == FALSE

\* if ( pimpl->opponents.size() == 0 ) return;
IsEmptyLog(o) == Len(o.opponents) = 0

\* the values Update can read as results[0 .. opponents.size()-1]: an index
\* past the end of results is read from whatever lies behind the vector
Garbage == {Zero, NaN}
Reads(o) ==
  {rd \in [1 .. Len(o.opponents) -> {Zero, Half, One, NaN}] :
      \A i \in 1 .. Len(o.opponents) :
         IF i <= Len(o.results) THEN rd[i] = o.results[i]
         ELSE rd[i] \in Garbage}

\* while ( abs(x - x_new) > 0.0000001 ): the values the condition can take.
\* <cmath> declares abs(double) in namespace std only, so the unqualified
\* call is either ::abs(int) on the truncated difference or, where the
\* library also declares the overloads globally, the double one.  The
\* conversion of a difference outside the int range is undefined.
AbsGreater(intAbs, diff) ==
  IF intAbs
  THEN IF InIntRange[diff] THEN {AbsI(TruncInt[diff]) >= 1}
       ELSE {TRUE, FALSE}
  ELSE {Gt[Fabs[diff], Epsilon]}
LoopCondition(intAbs, x, x_new) == AbsGreater(intAbs, Sub[x, x_new])

\* copy new values; ClearResults()
Commit(o, new) ==
  ClearResults([o EXCEPT !.rating = new.rating, !.deviation = new.deviation,
                         !.volatility = new.volatility])

----------------------------------------------------------------------------
(* The program: the objects of main() and a caller of the public interface *)

VARIABLES
  obj,       \* the Glicko2 objects: name -> members of its Glicko2_impl
  pc,        \* "idle", "loop" (inside the while loop of Update) or "crashed"
  frame,     \* the locals of the running Update
  absIsInt,  \* the build: unqualified abs resolves to ::abs(int)
  steps,     \* number of calls made so far
  origin,    \* history: per object and log entry, whom it was recorded
             \* against and that object's members at that moment
  last       \* history: the last completed call, the object (pre) and its
             \* argument object (opre) before it, and for an Update the
             \* origin of the log it consumed (rec) and what it read

vars == <<obj, pc, frame, absIsInt, steps, origin, last>>

\* bounds of the exploration: the calls of one run (a call that records a
\* result or updates counts one, any other call two) and the log length
MaxSteps == 4
MaxLog   == 3

Objects  == {"A", "B", "C", "D"}
\* main() only ever calls non-const members of A; B is mutated here as well
Subjects == {"A", "B"}

\* arguments of the calls
RatingArgs     == {FromInt[300000]}
DeviationArgs  == {FromInt[350]}
VolatilityArgs == {One}
AddArgs(self) ==
  IF self = "A"
  THEN {<<"B", WIN>>, <<"C", LOSS>>, <<"D", LOSS>>, <<"B", LOSS>>,
        <<"C", DRAW>>, <<"B", BadResult>>}
  ELSE {<<"A", WIN>>, <<"C", DRAW>>, <<"A", BadResult>>}

\* the objects main() constructs, around a given A
MainObjects(a) ==
  [n \in Objects |->
     IF n = "A" THEN a
     ELSE IF n = "B" THEN Glicko2(FromInt[1400], FromInt[30], Lit(6, -2))
     ELSE IF n = "C" THEN Glicko2(FromInt[1550], FromInt[100], Lit(6, -2))
     ELSE Glicko2(FromInt[1700], FromInt[300], Lit(6, -2))]

\* Glicko2 A(1500.0, 200.0, 0.06), and an A of high rating and volatility
MainA  == Glicko2(FromInt[1500], FromInt[200], Lit(6, -2))
OtherA == Glicko2(FromInt[2200], FromInt[200], FromInt[4])

NoFrame ==
  [self |-> "none", read |-> << >>, variance |-> Zero, delta |-> Zero,
   a |-> Zero, x |-> Zero, x_new |-> Zero, stepped |-> FALSE]

Done(op, self, other, result, pre, opre) ==
  [op |-> op, self |-> self, other |-> other, result |-> result, pre |-> pre,
   opre |-> opre, rec |-> << >>, read |-> << >>, x |-> Zero, x_new |-> Zero,
   stepped |-> FALSE]

Constructed(a) ==
  /\ obj = MainObjects(a)
  /\ pc = "idle"
  /\ frame = NoFrame
  /\ absIsInt \in BOOLEAN
  /\ steps = 0
  /\ origin = [n \in Objects |-> << >>]
  /\ last = Done("construct", "none", "none", -1, Glicko2_impl, Glicko2_impl)

Init == Constructed(MainA)

InitOther == Constructed(OtherA)

\* a call of a member function other than Update
Call(self, op, other, result, new, cost) ==
  /\ pc = "idle"
  /\ steps + cost <= MaxSteps
  /\ obj' = [obj EXCEPT ![self] = new]
  /\ last' = Done(op, self, other, result, obj[self],
                  IF other \in Objects THEN obj[other] ELSE Glicko2_impl)
  /\ steps' = steps + cost
  /\ UNCHANGED <<pc, frame, absIsInt>>

SetRatingCall(self, rating) ==
  /\ Call(self, "SetRating", "none", -1, SetRating(obj[self], rating), 2)
  /\ UNCHANGED origin

SetDeviationCall(self, deviation) ==
  /\ Call(self, "SetDeviation", "none", -1, SetDeviation(obj[self], deviation), 2)
  /\ UNCHANGED origin

SetVolatilityCall(self, volatility) ==
  /\ Call(self, "SetVolatility", "none", -1,
          SetVolatility(obj[self], volatility), 2)
  /\ UNCHANGED origin

ClearResultsCall(self) ==
  /\ Call(self, "ClearResults", "none", -1, ClearResults(obj[self]), 2)
  /\ origin' = [origin EXCEPT ![self] = << >>]

Recorded(self, other) ==
  origin' = [origin EXCEPT ![self] =
               Append(@, [who |-> other, rating |-> obj[other].rating,
                          deviation |-> obj[other].deviation])]

AddResultCall(self, other, result) ==
  /\ Len(obj[self].opponents) < MaxLog
  /\ Call(self, "AddResult", other, result,
          AddResult(obj[self], obj[other], result), 1)
  /\ Recorded(self, other)

\* AddWin calls AddResult(opponent, WIN)
AddWinCall(self, other) ==
  /\ Len(obj[self].opponents) < MaxLog
  /\ Call(self, "AddResult", other, WIN, AddWin(obj[self], obj[other]), 1)
  /\ Recorded(self, other)

\* AddLoss calls AddResult(opponent, LOSS)
AddLossCall(self, other) ==
  /\ Len(obj[self].opponents) < MaxLog
  /\ Call(self, "AddResult", other, LOSS, AddLoss(obj[self], obj[other]), 1)
  /\ Recorded(self, other)

\* AddDraw calls AddResult(opponent, DRAW)
AddDrawCall(self, other) ==
  /\ Len(obj[self].opponents) < MaxLog
  /\ Call(self, "AddResult", other, DRAW, AddDraw(obj[self], obj[other]), 1)
  /\ Recorded(self, other)

AssignCall(self, rhs) ==
  /\ Call(self, "Assign", rhs, -1,
          IF self = rhs THEN obj[self] ELSE Assign(obj[self], obj[rhs]), 2)
  /\ origin' = [origin EXCEPT ![self] = origin[rhs]]

\* the locals of Update() when it reaches the while loop: x = 0.0, x_new = a
EnterLoop(self, rd, variance, a) ==
  /\ frame' = [self |-> self, read |-> rd, variance |-> variance,
               delta |-> Delta(obj[self], rd, variance),
               a |-> a, x |-> Zero, x_new |-> a, stepped |-> FALSE]
  /\ pc' = "loop"

\* Update() up to the first test of the loop condition
UpdateCall(self) ==
  /\ pc = "idle"
  /\ steps < MaxSteps
  /\ steps' = steps + 1
  /\ UNCHANGED <<obj, absIsInt, origin>>
  /\ IF IsEmptyLog(obj[self])
     THEN /\ last' = Done("Update", self, "none", -1, obj[self], Glicko2_impl)
          /\ UNCHANGED <<pc, frame>>
     ELSE /\ UNCHANGED last
          /\ \/ \E rd \in Reads(obj[self]) :
                  EnterLoop(self, rd, Variance(obj[self]),
                            LogVariance(obj[self]))
             \/ /\ Len(obj[self].results) < Len(obj[self].opponents)
                /\ pc' = "crashed"
                /\ UNCHANGED frame

\* one pass through the body of the while loop
UpdateIter ==
  /\ pc = "loop"
  /\ TRUE \in LoopCondition(absIsInt, frame.x, frame.x_new)
  /\ frame' = [frame EXCEPT
        !.x = frame.x_new,
        !.x_new = NewtonStep(obj[frame.self], frame.variance, frame.delta,
                             frame.a, frame.x_new),
        !.stepped = TRUE]
  /\ UNCHANGED <<obj, pc, absIsInt, steps, origin, last>>

\* the loop condition is false: the rest of Update()
UpdateReturn ==
  /\ pc = "loop"
  /\ FALSE \in LoopCondition(absIsInt, frame.x, frame.x_new)
  /\ \E new \in {NewValues(obj[frame.self], frame.read, frame.variance,
                           frame.x_new)} :
        obj' = [obj EXCEPT ![frame.self] = Commit(@, new)]
  /\ origin' = [origin EXCEPT ![frame.self] = << >>]
  /\ last' = [op |-> "Update", self |-> frame.self, other |-> "none",
              result |-> -1, pre |-> obj[frame.self], opre |-> Glicko2_impl,
              rec |-> origin[frame.self], read |-> frame.read,
              x |-> frame.x, x_new |-> frame.x_new,
              stepped |-> frame.stepped]
  /\ pc' = "idle"
  /\ frame' = NoFrame
  /\ UNCHANGED <<absIsInt, steps>>

Next ==
  \/ \E self \in Subjects, rating \in RatingArgs : SetRatingCall(self, rating)
  \/ \E self \in Subjects, deviation \in DeviationArgs :
        SetDeviationCall(self, deviation)
  \/ \E self \in Subjects, volatility \in VolatilityArgs :
        SetVolatilityCall(self, volatility)
  \/ \E self \in Subjects : ClearResultsCall(self)
  \/ \E self \in Subjects : \E arg \in AddArgs(self) :
        AddResultCall(self, arg[1], arg[2])
  \/ \E self \in Subjects : \E arg \in AddArgs(self) :
        arg[2] = WIN /\ AddWinCall(self, arg[1])
  \/ \E self \in Subjects : \E arg \in AddArgs(self) :
        arg[2] = LOSS /\ AddLossCall(self, arg[1])
  \/ \E self \in Subjects : \E arg \in AddArgs(self) :
        arg[2] = DRAW /\ AddDrawCall(self, arg[1])
  \/ \E self \in Subjects, rhs \in Subjects : AssignCall(self, rhs)
  \/ \E self \in Subjects : UpdateCall(self)
  \/ UpdateIter
  \/ UpdateReturn

Spec == Init /\ [][Next]_vars

\* the program keeps running: a started Update executes its next statement
FairSpec ==
  InitOther /\ [][Next]_vars /\ WF_vars(UpdateIter) /\ WF_vars(UpdateReturn)

----------------------------------------------------------------------------
(* The properties                                                          *)

ValuesOf(o) == Scalars(o.rating, o.deviation, o.volatility)

FiniteValues(o) ==
  IsFinite(o.rating) /\ IsFinite(o.deviation) /\ IsFinite(o.volatility)

\* every entry of the log has its own score, and all its numbers are finite
WellFormed(o) ==
  /\ Len(o.results) = Len(o.opponents)
  /\ FiniteValues(o)
  /\ \A i \in 1 .. Len(o.opponents) : FiniteValues(o.opponents[i])

\* an Update of a non-empty log has returned and nothing was called since
Updated == last.op = "Update" /\ Len(last.pre.opponents) > 0

\* C1: Update() on an empty pending log is a no-op: rating, deviation and
\* volatility are exactly what they were and the log is still empty.
C1_UpdateEmptyNoOp ==
  (last.op = "Update" /\ Len(last.pre.opponents) = 0)
     => /\ obj[last.self] = last.pre
        /\ obj[last.self].opponents = << >>
        /\ obj[last.self].results = << >>

\* an Update on an empty log of an object whose deviation was set to 350
C1_Witness ==
  /\ last.op = "Update"
  /\ Len(last.pre.opponents) = 0
  /\ last.pre.deviation = SetDeviation(Glicko2_impl, FromInt[350]).deviation
  /\ obj[last.self].deviation = last.pre.deviation

\* o with the entries of its log replaced by the values noted in rec when
\* each entry was recorded
AsRecorded(o, rec) ==
  [o EXCEPT !.opponents =
     [i \in 1 .. Len(rec) |->
        Scalars(rec[i].rating, rec[i].deviation, o.opponents[i].volatility)]]

\* C2: snapshot isolation.  The log of every object holds the rating and
\* deviation each opponent had when the result was recorded, whatever was
\* done to the opponent since; the variance and delta of a running Update
\* and the values a returned Update committed are those computed from the
\* values at record time.
C2_SnapshotIsolation ==
  /\ \A s \in Objects :
       /\ Len(origin[s]) = Len(obj[s].opponents)
       /\ \A i \in 1 .. Len(origin[s]) :
            /\ obj[s].opponents[i].rating = origin[s][i].rating
            /\ obj[s].opponents[i].deviation = origin[s][i].deviation
  /\ pc = "loop" =>
       /\ frame.variance =
            Variance(AsRecorded(obj[frame.self], origin[frame.self]))
       /\ frame.delta =
            Delta(AsRecorded(obj[frame.self], origin[frame.self]),
                  frame.read, frame.variance)
  /\ Updated =>
       ValuesOf(obj[last.self]) =
          NewValues(AsRecorded(last.pre, last.rec), last.read,
                    Variance(AsRecorded(last.pre, last.rec)), last.x_new)

\* an Update has returned whose log held a result against an object that
\* was changed after the result was recorded
C2_Witness ==
  /\ Updated
  /\ \E i \in 1 .. Len(last.rec) :
       /\ last.rec[i].who # last.self
       /\ obj[last.rec[i].who].rating # last.rec[i].rating
       /\ last.pre.opponents[i].rating = last.rec[i].rating

\* C3: an Update() that returns on a non-empty log has committed the new
\* rating, deviation and volatility and left the log empty, so that the
\* next Update() finds nothing to apply.
C3_UpdateConsumesLog ==
  Updated =>
     /\ obj[last.self].opponents = << >>
     /\ obj[last.self].results = << >>
     /\ IsEmptyLog(obj[last.self])
     /\ ValuesOf(obj[last.self]) =
          NewValues(last.pre, last.read, Variance(last.pre), last.x_new)

\* an Update has consumed a log of three results and changed the rating
C3_Witness ==
  /\ Updated
  /\ Len(last.pre.opponents) = 3
  /\ Len(last.pre.results) = 3
  /\ obj[last.self].opponents = << >>
  /\ obj[last.self].rating # last.pre.rating

\* C4: Update() never commits a non-finite rating, deviation or volatility:
\* on a numeric failure it leaves the object and its log as they were.
C4_NoNonFiniteCommit ==
  (Updated /\ WellFormed(last.pre)) => FiniteValues(obj[last.self])

\* C5: every Update() returns: the loop of the volatility solver ends.
C5_UpdateTerminates == (pc = "loop") ~> (pc = "idle")

\* C6: AddResult with a result outside {WIN, LOSS, DRAW} is rejected: it
\* adds neither an opponent snapshot nor a score to the log.
C6_InvalidScoreRejected ==
  (last.op = "AddResult" /\ last.result \notin RESULT)
     => obj[last.self] = last.pre

Score(result) ==
  IF result = WIN THEN One ELSE IF result = LOSS THEN Zero ELSE Half

\* C7: AddResult(O, r) with r in {WIN, LOSS, DRAW}, and AddWin, AddLoss and
\* AddDraw likewise, append one snapshot holding O's rating and deviation
\* and one score (1 for WIN, 0 for LOSS, 0.5 for DRAW) and change neither
\* the subject's rating, deviation and volatility, nor the earlier entries,
\* nor O.
C7_AddResultAppendsOnly ==
  (last.op = "AddResult" /\ last.result \in RESULT) =>
     /\ Len(obj[last.self].opponents) = Len(last.pre.opponents) + 1
     /\ Len(obj[last.self].results) = Len(last.pre.results) + 1
     /\ SubSeq(obj[last.self].opponents, 1, Len(last.pre.opponents))
          = last.pre.opponents
     /\ SubSeq(obj[last.self].results, 1, Len(last.pre.results))
          = last.pre.results
     /\ obj[last.self].opponents[Len(last.pre.opponents) + 1].rating
          = last.opre.rating
     /\ obj[last.self].opponents[Len(last.pre.opponents) + 1].deviation
          = last.opre.deviation
     /\ obj[last.self].results[Len(last.pre.results) + 1] = Score(last.result)
     /\ ValuesOf(obj[last.self]) = ValuesOf(last.pre)
     /\ obj[last.other] = last.opre

\* a loss recorded as the second entry of a log, against an opponent whose
\* rating was set to another value after its construction
C7_Witness ==
  /\ last.op = "AddResult"
  /\ last.result = LOSS
  /\ Len(last.pre.opponents) = 1
  /\ Len(obj[last.self].opponents) = 2
  /\ obj[last.self].results = Append(last.pre.results, Zero)
  /\ last.opre.rating # MainObjects(MainA)[last.other].rating
  /\ obj[last.self].opponents[2].rating = last.opre.rating

\* the log of A after the three calls of main()
MainLog ==
  AddResult(AddLoss(AddWin(MainA, MainObjects(MainA)["B"]),
                    MainObjects(MainA)["C"]),
            MainObjects(MainA)["D"], LOSS)

Near(value, target, tolerance) == Le[Fabs[Sub[value, target]], tolerance]

\* C8: in the scenario of main() (A(1500, 200, 0.06) wins against
\* B(1400, 30, 0.06), loses against C(1550, 100, 0.06) and D(1700, 300,
\* 0.06)), after A.Update() GetRating() is 1464.06 and GetDeviation() is
\* 151.52 within 0.5, and GetVolatility() is 0.05999 within 0.0001.
C8_ReferenceScenario ==
  (last.op = "Update" /\ last.self = "A" /\ last.pre = MainLog) =>
     /\ Near(GetRating(obj["A"]), Lit(146406, -2), Half)
     /\ Near(GetDeviation(obj["A"]), Lit(15152, -2), Half)
     /\ Near(GetVolatility(obj["A"]), Lit(5999, -5), Lit(1, -4))

\* A.Update() has returned in the scenario of main()
C8_Witness ==
  /\ last.op = "Update"
  /\ last.self = "A"
  /\ last.pre = MainLog
  /\ last.rec = <<[who |-> "B", rating |-> MainLog.opponents[1].rating,
                   deviation |-> MainLog.opponents[1].deviation],
                  [who |-> "C", rating |-> MainLog.opponents[2].rating,
                   deviation |-> MainLog.opponents[2].deviation],
                  [who |-> "D", rating |-> MainLog.opponents[3].rating,
                   deviation |-> MainLog.opponents[3].deviation]>>
  /\ obj["A"].opponents = << >>

\* C9: every Update() of a non-empty log evaluates at least one Newton step
\* and leaves the loop only when the last step moved x by at most 1e-7.
C9_SolverConverged ==
  (Updated /\ WellFormed(last.pre)) =>
     /\ last.stepped
     /\ Le[Fabs[Sub[last.x_new, last.x]], Epsilon]

\* C10: the list of opponent snapshots and the list of scores of every
\* object have the same length, and no Update() reads past the end of the
\* scores.
C10_ListsAligned ==
  /\ \A s \in Objects : Len(obj[s].opponents) = Len(obj[s].results)
  /\ pc # "crashed"
  /\ pc = "loop" => Len(frame.read) <= Len(obj[frame.self].results)

====
